---- MODULE Spec2Model ----
(***************************************************************************)
(* bitraft: the replicated state machine of src/server.go (type Machine).  *)
(* A Machine owns one storage handle (kvm.db); finn/raft calls             *)
(* Machine.Command to dispatch client commands and to apply committed ones,*)
(* Machine.Snapshot to write the keyspace and Machine.Restore to read it.  *)
(*                                                                         *)
(* Byte sequences ([]byte, string) are sequences of naturals 0..255.       *)
(* A command is cmd.Args: a sequence of byte sequences, the name first, so *)
(* Go's cmd.Args[i] is cmd[i+1] here and len(cmd.Args) is Len(cmd).        *)
(***************************************************************************)
EXTENDS Integers, Sequences, FiniteSets, TLC

\* ------------------------------------------------------------------ bounds
\* Committed commands in the replicated log.
MaxLog == 2
\* Bytes a snapshot may lose at its end before it is restored.
MaxCut == 3
\* Commands applied by the goroutines that share kvm.mu.
MaxLockLog == 3
\* Records in a snapshot file read offline.
MaxRecs == 2
\* Bytes the gzip frame of a snapshot file may lose at its end.
MaxGzCut == 2

Nodes == {1, 2}
\* The goroutines calling into one Machine.
Threads == {1, 2, 3}

\* ------------------------------------------------------------------ state
VARIABLES
    log,      \* the commands committed by consensus, in commit order
    applied,  \* per node: how many committed commands it has applied
    db,       \* per node: the keyspace of kvm.db
    snap,     \* the snapshot consensus keeps: the index it was taken at, its bytes
    alive,    \* per node: the process is running
    last,     \* the last call into a Machine and what it answered
    file,     \* the snapshot file read offline: how its bytes were made
    wr,       \* what WriteRedisCommandsFromSnapshot wrote and returned
    mu,       \* kvm.mu of node 1
    thr       \* the goroutines calling into the Machine of node 1

vars == <<log, applied, db, snap, alive, last, file, wr, mu, thr>>

\* ------------------------------------------------------- bytes and names
KeyA == <<97>>
KeyKB == <<107, 98>>
KeySet == {KeyA, KeyKB}
ValEmpty == <<>>
Val1 == <<49>>
ValSet == {ValEmpty, Val1}

NameEcho == <<101, 99, 104, 111>>
NameSet == <<115, 101, 116>>
NameGet == <<103, 101, 116>>
NameGetUpper == <<71, 69, 84>>
NameDel == <<100, 101, 108>>
NameKeys == <<107, 101, 121, 115>>
NameFlushdb == <<102, 108, 117, 115, 104, 100, 98>>
NameShutdown == <<115, 104, 117, 116, 100, 111, 119, 110>>
NamePing == <<112, 105, 110, 103>>
ArgStar == <<42>>
ArgWithValues == <<119, 105, 116, 104, 118, 97, 108, 117, 101, 115>>
ArgLimit == <<108, 105, 109, 105, 116>>

\* strings.ToLower on ASCII bytes.
ToLower(s) == [i \in DOMAIN s |-> IF s[i] >= 65 /\ s[i] <= 90 THEN s[i] + 32 ELSE s[i]]

\* ------------------------------------------------------------- storage
\* A keyspace is a function from the keys present to their values.
EmptyDb == [k \in {} |-> <<>>]

dbHas(d, k) == k \in DOMAIN d

dbPut(d, k, v) == [x \in (DOMAIN d) \cup {k} |-> IF x = k THEN v ELSE d[x]]

\* Deleting a key that is not there succeeds: the storage reports no error.
dbDelete(d, k) == [x \in (DOMAIN d) \ {k} |-> d[x]]

\* Byte-wise order of two byte sequences (Go string comparison).
RECURSIVE BytesLess(_, _)
BytesLess(a, b) ==
    IF b = <<>> THEN FALSE
    ELSE IF a = <<>> THEN TRUE
    ELSE IF a[1] # b[1] THEN a[1] < b[1]
    ELSE BytesLess(Tail(a), Tail(b))

\* The keys of a set in ascending order.
RECURSIVE SortKeys(_)
SortKeys(S) ==
    IF S = {} THEN <<>>
    ELSE LET m == CHOOSE x \in S : \A y \in S \ {x} : BytesLess(x, y)
         IN  <<m>> \o SortKeys(S \ {m})

\* db.Fold visits every key once.
FoldKeys(d) == SortKeys(DOMAIN d)

\* ---------------------------------------------------------- snapshot codec
NumSize == 8

\* binary.LittleEndian.PutUint64 into a buffer of n bytes.
RECURSIVE PutUint64(_, _)
PutUint64(x, n) ==
    IF n = 0 THEN <<>> ELSE <<x % 256>> \o PutUint64(x \div 256, n - 1)

\* binary.LittleEndian.Uint64
RECURSIVE Uint64(_)
Uint64(b) == IF b = <<>> THEN 0 ELSE b[1] + 256 * Uint64(Tail(b))

\* EncodeRecord writing the key's length in the value's length field.
EncodeRecord_KeyLenTwice(k, v) ==
    PutUint64(Len(k), NumSize) \o k \o PutUint64(Len(k), NumSize) \o v

\* The callback of Snapshot's Fold: one record for one key.
EncodeRecord(k, v) ==
    PutUint64(Len(k), NumSize) \o k \o PutUint64(Len(v), NumSize) \o v

RECURSIVE EncodeKeys(_, _)
EncodeKeys(d, ks) ==
    IF ks = <<>> THEN <<>>
    ELSE EncodeRecord(ks[1], d[ks[1]]) \o EncodeKeys(d, Tail(ks))

\* The gzip frame: a header, the deflated stream closed by an end-of-stream
\* symbol (which is no byte), and the trailer carrying the payload's size.
GzMagic1 == 31
GzMagic2 == 139
GzEnd == 256
GzipFrame(p) == <<GzMagic1, GzMagic2>> \o p \o <<GzEnd, Len(p)>>

\* Machine.Snapshot: the bytes written to wr.
SnapshotBytes(d) == GzipFrame(EncodeKeys(d, FoldKeys(d)))

\* ---------------------------------------------------------------- errors
NoErr == "nil"
ErrEOF == "EOF"
ErrUnexpectedEOF == "unexpected EOF"
ErrGzipHeader == "gzip: invalid header"
ErrGzipChecksum == "gzip: invalid checksum"
ErrWrongNumberOfArguments == "wrong number of arguments"
ErrUnknownCommand == "unknown command"
ErrSyntaxError == "syntax error"
\* The error a failing call into the storage returns.
ErrStorage == "storage error"

\* gzip.NewReader reads the header and fails when it is not a gzip header.
GzipHeaderOk(src) == Len(src) >= 2 /\ src[1] = GzMagic1 /\ src[2] = GzMagic2

\* What the gzip reader delivers: the bytes up to the end-of-stream symbol,
\* and the error the read after the last delivered byte reports.
GzipRead(src) ==
    LET body == SubSeq(src, 3, Len(src))
        ends == {i \in DOMAIN body : body[i] = GzEnd}
    IN  IF ends = {} THEN [data |-> body, err |-> ErrUnexpectedEOF]
        ELSE LET e == CHOOSE i \in ends : \A j \in ends : i <= j
                 data == SubSeq(body, 1, e - 1)
             IN  IF Len(body) < e + 1 THEN [data |-> data, err |-> ErrUnexpectedEOF]
                 ELSE IF body[e + 1] # Len(data) THEN [data |-> data, err |-> ErrGzipChecksum]
                 ELSE [data |-> data, err |-> ErrEOF]

\* io.ReadFull reporting the reader's end as it is when buf is partly filled.
ReadFull_ShortIsEnd(data, n, endErr) ==
    IF Len(data) >= n THEN NoErr ELSE endErr

\* io.ReadFull(r, buf) with len(buf) = n on a reader holding data and then
\* reporting endErr: the error returned (NoErr when buf was filled).
ReadFull(data, n, endErr) ==
    IF Len(data) >= n THEN NoErr
    ELSE IF Len(data) = 0 THEN endErr
    ELSE IF endErr = ErrEOF THEN ErrUnexpectedEOF
    ELSE endErr

Skip(data, n) == SubSeq(data, n + 1, Len(data))

\* The decode loop of Machine.Restore: every complete record is put as it
\* is read; the result is the keyspace and the error returned.
RECURSIVE RestoreLoop(_, _, _)
RestoreLoop(d, data, endErr) ==
    LET e1 == ReadFull(data, NumSize, endErr) IN
    IF e1 # NoErr THEN [db |-> d, err |-> IF e1 = ErrEOF THEN NoErr ELSE e1]
    ELSE
    LET klen == Uint64(SubSeq(data, 1, NumSize))
        r1 == Skip(data, NumSize)
        e2 == ReadFull(r1, klen, endErr) IN
    IF e2 # NoErr THEN [db |-> d, err |-> e2]
    ELSE
    LET key == SubSeq(r1, 1, klen)
        r2 == Skip(r1, klen)
        e3 == ReadFull(r2, NumSize, endErr) IN
    IF e3 # NoErr THEN [db |-> d, err |-> e3]
    ELSE
    LET vlen == Uint64(SubSeq(r2, 1, NumSize))
        r3 == Skip(r2, NumSize)
        e4 == ReadFull(r3, vlen, endErr) IN
    IF e4 # NoErr THEN [db |-> d, err |-> e4]
    ELSE RestoreLoop(dbPut(d, key, SubSeq(r3, 1, vlen)), Skip(r3, vlen), endErr)

\* The two paths of the machine: bitcask.Open(kvm.dir) keeps the keyspace
\* in StorePath, kvm.dbPath is filepath.Join(dir, "node.db").
StorePath == "dir"
DbPath == "dir/node.db"

\* os.RemoveAll(path) as seen by the keyspace stored in StorePath.
RemoveAll(d, path) == IF path = StorePath THEN EmptyDb ELSE d

\* Machine.Restore(rd): the keyspace afterwards and the error returned.
RestoreResult(d, src) ==
    LET reopened == RemoveAll(d, DbPath) IN
    IF ~GzipHeaderOk(src) THEN [db |-> reopened, err |-> ErrGzipHeader]
    ELSE LET g == GzipRead(src) IN RestoreLoop(reopened, g.data, g.err)

\* ------------------------------------------------- offline snapshot reader
\* One pass of the decode loop: the four reads of a record. first: the error
\* is the one of the read of the key's length.
DecodeRecord(data, endErr) ==
    LET none == [err |-> NoErr, first |-> FALSE, key |-> <<>>, value |-> <<>>, rest |-> <<>>]
        e1 == ReadFull(data, NumSize, endErr) IN
    IF e1 # NoErr THEN [none EXCEPT !.err = e1, !.first = TRUE]
    ELSE
    LET klen == Uint64(SubSeq(data, 1, NumSize))
        r1 == Skip(data, NumSize)
        e2 == ReadFull(r1, klen, endErr) IN
    IF e2 # NoErr THEN [none EXCEPT !.err = e2]
    ELSE
    LET key == SubSeq(r1, 1, klen)
        r2 == Skip(r1, klen)
        e3 == ReadFull(r2, NumSize, endErr) IN
    IF e3 # NoErr THEN [none EXCEPT !.err = e3]
    ELSE
    LET vlen == Uint64(SubSeq(r2, 1, NumSize))
        r3 == Skip(r2, NumSize)
        e4 == ReadFull(r3, vlen, endErr) IN
    IF e4 # NoErr THEN [none EXCEPT !.err = e4]
    ELSE [none EXCEPT !.key = key, !.value = SubSeq(r3, 1, vlen), !.rest = Skip(r3, vlen)]

\* strconv.AppendInt(cmd, n, 10) for n >= 0.
RECURSIVE AppendInt(_)
AppendInt(n) == IF n < 10 THEN <<48 + n>> ELSE AppendInt(n \div 10) \o <<48 + (n % 10)>>

CRLF == <<13, 10>>
\* "*3\r\n$3\r\nSET\r\n$"
SetHead == <<42, 51>> \o CRLF \o <<36, 51>> \o CRLF \o <<83, 69, 84>> \o CRLF \o <<36>>

\* The command written for one record.
RedisSet(key, value) ==
    SetHead \o AppendInt(Len(key)) \o CRLF \o key \o CRLF
    \o <<36>> \o AppendInt(Len(value)) \o CRLF \o value \o CRLF

\* The reader accepting every non-empty key.
Accepts_AnyKey(key) == Len(key) # 0

\* The keys the reader accepts: those starting with 'k'.
PrefixByte == 107
Accepts(key) == ~(Len(key) = 0 \/ key[1] # PrefixByte)

\* The loop of WriteRedisCommandsFromSnapshot: out is what was written to wr.
RECURSIVE OfflineLoop(_, _, _)
OfflineLoop(data, endErr, out) ==
    LET d == DecodeRecord(data, endErr) IN
    IF d.err # NoErr
    THEN [out |-> out, err |-> IF d.first /\ d.err = ErrEOF THEN NoErr ELSE d.err]
    ELSE IF ~Accepts(d.key) THEN OfflineLoop(d.rest, endErr, out)
    ELSE OfflineLoop(d.rest, endErr, out \o RedisSet(Tail(d.key), d.value))

\* WriteRedisCommandsFromSnapshot(wr, snapshotPath) reading the bytes src.
WriteRedisCommandsFromSnapshot(src) ==
    IF ~GzipHeaderOk(src) THEN [out |-> <<>>, err |-> ErrGzipHeader]
    ELSE LET g == GzipRead(src) IN OfflineLoop(g.data, g.err, <<>>)

\* --------------------------------------------------------------- replies
\* What a handler writes to the connection, or the error it returns.
NoReply == [kind |-> "none", err |-> NoErr, n |-> 0, data |-> <<>>]
ErrorReply(e) == [kind |-> "error", err |-> e, n |-> 0, data |-> <<>>]
\* conn.WriteString
StringReply(b) == [kind |-> "string", err |-> NoErr, n |-> 0, data |-> <<b>>]
\* conn.WriteBulk
BulkReply(b) == [kind |-> "bulk", err |-> NoErr, n |-> 0, data |-> <<b>>]
\* conn.WriteNull
NullReply == [kind |-> "null", err |-> NoErr, n |-> 0, data |-> <<>>]
\* conn.WriteInt
IntReply(i) == [kind |-> "int", err |-> NoErr, n |-> i, data |-> <<>>]
\* conn.WriteArray(i) followed by the bulks of elems
ArrayReply(i, elems) == [kind |-> "array", err |-> NoErr, n |-> i, data |-> elems]
OK == <<79, 75>>

\* -------------------------------------------------------------- handlers
ErrKeyNotFound == "error: key not found"

\* kvm.db.Get
dbGet(d, k) ==
    IF dbHas(d, k) THEN [value |-> d[k], err |-> NoErr]
    ELSE [value |-> <<>>, err |-> ErrKeyNotFound]

\* The name Machine.Command switches on.
CmdName(cmd) == ToLower(cmd[1])

KnownNames == {NameEcho, NameSet, NameGet, NameDel, NameKeys, NameFlushdb, NameShutdown}
WriteNames == {NameSet, NameDel, NameFlushdb}
ReadNames == {NameGet, NameKeys}

\* The checks a handler makes before it calls m.Apply: the error returned,
\* NoErr when the handler goes on.
cmdSetCheck(cmd) == IF Len(cmd) # 3 THEN ErrWrongNumberOfArguments ELSE NoErr
cmdEchoCheck(cmd) == IF Len(cmd) # 2 THEN ErrWrongNumberOfArguments ELSE NoErr
cmdGetCheck(cmd) == IF Len(cmd) # 2 THEN ErrWrongNumberOfArguments ELSE NoErr
cmdDelCheck(cmd) == NoErr
cmdKeysCheck(cmd) ==
    IF Len(cmd) < 2 THEN ErrWrongNumberOfArguments
    ELSE IF \E i \in 3..Len(cmd) : ToLower(cmd[i]) # ArgWithValues THEN ErrSyntaxError
    ELSE NoErr
cmdFlushdbCheck(cmd) == IF Len(cmd) # 1 THEN ErrWrongNumberOfArguments ELSE NoErr

CmdCheck(cmd) ==
    LET name == CmdName(cmd) IN
    IF name = NameEcho THEN cmdEchoCheck(cmd)
    ELSE IF name = NameSet THEN cmdSetCheck(cmd)
    ELSE IF name = NameGet THEN cmdGetCheck(cmd)
    ELSE IF name = NameDel THEN cmdDelCheck(cmd)
    ELSE IF name = NameKeys THEN cmdKeysCheck(cmd)
    ELSE IF name = NameFlushdb THEN cmdFlushdbCheck(cmd)
    ELSE IF name = NameShutdown THEN NoErr
    ELSE ErrUnknownCommand

\* cmdSet's mutate function appending the value to the one already stored.
cmdSetMutate_Append(d, cmd) ==
    [db |-> dbPut(d, cmd[2], (IF dbHas(d, cmd[2]) THEN d[cmd[2]] ELSE <<>>) \o cmd[3]),
     v |-> 0, err |-> NoErr]

\* cmdSet's mutate function stamping the value with a clock, here the number
\* of commands committed when it runs.
cmdSetMutate_Clock(d, cmd) ==
    [db |-> dbPut(d, cmd[2], cmd[3] \o <<Len(log)>>), v |-> 0, err |-> NoErr]

\* The mutate function of cmdSet: the keyspace afterwards and the value v.
cmdSetMutate(d, cmd) == [db |-> dbPut(d, cmd[2], cmd[3]), v |-> 0, err |-> NoErr]

\* The loop of cmdDel's mutate function from Go index i - 1, n deleted so far.
RECURSIVE cmdDelLoop(_, _, _, _)
cmdDelLoop(d, cmd, i, n) ==
    IF i > Len(cmd) THEN [db |-> d, v |-> n, err |-> NoErr]
    ELSE cmdDelLoop(dbDelete(d, cmd[i]), cmd, i + 1, n + 1)

StartIdx == 1
cmdDelMutate(d, cmd) == cmdDelLoop(d, cmd, StartIdx + 1, 0)

\* cmdFlushdb's mutate function clearing the keyspace.
cmdFlushdbMutate_Clear(d, cmd) == [db |-> EmptyDb, v |-> 0, err |-> NoErr]

\* The mutate function of cmdFlushdb: kvm.db.Sync().
cmdFlushdbMutate(d, cmd) == [db |-> d, v |-> 0, err |-> NoErr]

\* The mutate function Machine.Command runs for a committed command.
Mutate(d, cmd) ==
    LET name == CmdName(cmd) IN
    IF name = NameSet THEN cmdSetMutate(d, cmd)
    ELSE IF name = NameDel THEN cmdDelMutate(d, cmd)
    ELSE cmdFlushdbMutate(d, cmd)

\* The respond functions of the write commands, given the mutate result.
cmdSetRespond(r) == StringReply(OK)
cmdDelRespond(r) == IntReply(r.v)
cmdFlushdbRespond(r) == StringReply(OK)

Respond(cmd, r) ==
    LET name == CmdName(cmd) IN
    IF r.err # NoErr THEN ErrorReply(r.err)
    ELSE IF name = NameSet THEN cmdSetRespond(r)
    ELSE IF name = NameDel THEN cmdDelRespond(r)
    ELSE cmdFlushdbRespond(r)

\* cmdGet's respond function taking an empty value for a missing key.
cmdGetRespond_EmptyIsNull(d, cmd) ==
    LET g == dbGet(d, cmd[2]) IN
    IF g.err # NoErr \/ g.value = <<>>
    THEN IF g.err \in {ErrKeyNotFound, NoErr} THEN NullReply ELSE ErrorReply(g.err)
    ELSE BulkReply(g.value)

\* The respond function of cmdGet.
cmdGetRespond(d, cmd) ==
    LET g == dbGet(d, cmd[2]) IN
    IF g.err # NoErr
    THEN IF g.err = ErrKeyNotFound THEN NullReply ELSE ErrorReply(g.err)
    ELSE BulkReply(g.value)

\* The flag loop of cmdKeys.
cmdKeysWithValues(cmd) == \E i \in 3..Len(cmd) : ToLower(cmd[i]) = ArgWithValues

\* The bulks cmdKeys writes for the folded keys ks.
RECURSIVE cmdKeysBulks(_, _, _)
cmdKeysBulks(d, ks, withvalues) ==
    IF ks = <<>> THEN <<>>
    ELSE (IF withvalues THEN <<ks[1], dbGet(d, ks[1]).value>> ELSE <<ks[1]>>)
         \o cmdKeysBulks(d, Tail(ks), withvalues)

\* The respond function of cmdKeys.
cmdKeysRespond(d, cmd) ==
    LET withvalues == cmdKeysWithValues(cmd)
        keys == FoldKeys(d)
    IN  ArrayReply(IF withvalues THEN Len(keys) * 2 ELSE Len(keys),
                   cmdKeysBulks(d, keys, withvalues))

cmdEchoRespond(cmd) == BulkReply(cmd[2])

\* ------------------------------------------------- storage that may fail
\* F is the set of the storage calls of one operation that fail, numbered
\* from 1 in the order the operation makes them; a failing call changes
\* nothing and returns ErrStorage.
FaultCalls == {1, 2}
FaultSets == SUBSET FaultCalls \ {{}}

\* cmdSet's mutate function: return nil, kvm.db.Put(...).
cmdSetMutateFault(d, cmd, F) ==
    IF 1 \in F THEN [db |-> d, v |-> 0, err |-> ErrStorage, panic |-> FALSE]
    ELSE [db |-> dbPut(d, cmd[2], cmd[3]), v |-> 0, err |-> NoErr, panic |-> FALSE]

\* The loop of cmdDel's mutate function: a failing Delete returns 0 and the
\* error at once.
RECURSIVE cmdDelLoopFault(_, _, _, _, _)
cmdDelLoopFault(d, cmd, i, n, F) ==
    IF i > Len(cmd) THEN [db |-> d, v |-> n, err |-> NoErr, panic |-> FALSE]
    ELSE IF (i - StartIdx) \in F
    THEN [db |-> d, v |-> 0, err |-> ErrStorage, panic |-> FALSE]
    ELSE cmdDelLoopFault(dbDelete(d, cmd[i]), cmd, i + 1, n + 1, F)

cmdDelMutateFault(d, cmd, F) == cmdDelLoopFault(d, cmd, StartIdx + 1, 0, F)

\* cmdFlushdb's mutate function: a failing Sync panics.
cmdFlushdbMutateFault(d, cmd, F) ==
    IF 1 \in F THEN [db |-> d, v |-> 0, err |-> ErrStorage, panic |-> TRUE]
    ELSE [db |-> d, v |-> 0, err |-> NoErr, panic |-> FALSE]

MutateFault(d, cmd, F) ==
    LET name == CmdName(cmd) IN
    IF name = NameSet THEN cmdSetMutateFault(d, cmd, F)
    ELSE IF name = NameDel THEN cmdDelMutateFault(d, cmd, F)
    ELSE cmdFlushdbMutateFault(d, cmd, F)

\* The decode loop of Machine.Restore, call the number of the next Put: the
\* error of kvm.db.Put is dropped and the loop goes on. failed: some Put
\* failed.
RECURSIVE RestoreLoopFault(_, _, _, _, _, _)
RestoreLoopFault(d, data, endErr, call, F, failed) ==
    LET e1 == ReadFull(data, NumSize, endErr) IN
    IF e1 # NoErr
    THEN [db |-> d, err |-> IF e1 = ErrEOF THEN NoErr ELSE e1, failed |-> failed]
    ELSE
    LET klen == Uint64(SubSeq(data, 1, NumSize))
        r1 == Skip(data, NumSize)
        e2 == ReadFull(r1, klen, endErr) IN
    IF e2 # NoErr THEN [db |-> d, err |-> e2, failed |-> failed]
    ELSE
    LET key == SubSeq(r1, 1, klen)
        r2 == Skip(r1, klen)
        e3 == ReadFull(r2, NumSize, endErr) IN
    IF e3 # NoErr THEN [db |-> d, err |-> e3, failed |-> failed]
    ELSE
    LET vlen == Uint64(SubSeq(r2, 1, NumSize))
        r3 == Skip(r2, NumSize)
        e4 == ReadFull(r3, vlen, endErr) IN
    IF e4 # NoErr THEN [db |-> d, err |-> e4, failed |-> failed]
    ELSE RestoreLoopFault(IF call \in F THEN d ELSE dbPut(d, key, SubSeq(r3, 1, vlen)),
                          Skip(r3, vlen), endErr, call + 1, F,
                          failed \/ call \in F)

\* Machine.Restore(rd) on a storage whose Put may fail.
RestoreResultFault(d, src, F) ==
    LET reopened == RemoveAll(d, DbPath) IN
    IF ~GzipHeaderOk(src) THEN [db |-> reopened, err |-> ErrGzipHeader, failed |-> FALSE]
    ELSE LET g == GzipRead(src) IN RestoreLoopFault(reopened, g.data, g.err, 1, F, FALSE)

\* ---------------------------------------------------------------- inputs
\* The argument lists of DEL: no key, one key, two keys, one key twice.
DelArgs == {<<>>, <<KeyA>>, <<KeyKB>>, <<KeyA, KeyKB>>, <<KeyA, KeyA>>}

\* The commands clients send.
Commands ==
    {<<NameSet, k, v>> : k \in KeySet, v \in ValSet}
    \cup {<<NameSet, KeyA>>, <<NameSet, KeyA, Val1, Val1>>}
    \cup {<<NameGet, k>> : k \in KeySet}
    \cup {<<NameGetUpper, KeyA>>, <<NameGet>>}
    \cup {<<NameDel>> \o a : a \in DelArgs}
    \cup {<<NameKeys>>, <<NameKeys, ArgStar>>, <<NameKeys, ArgWithValues>>,
          <<NameKeys, ArgStar, ArgWithValues>>, <<NameKeys, ArgStar, ArgLimit>>}
    \cup {<<NameEcho>>, <<NameEcho, Val1>>, <<NameEcho, Val1, Val1>>}
    \cup {<<NameFlushdb>>, <<NameFlushdb, KeyA>>}
    \cup {<<NameShutdown>>, <<NameShutdown, KeyA>>}
    \cup {<<NamePing>>}

\* The commands by the branch Machine.Command takes for them.
UnknownCommands == {c \in Commands : CmdName(c) \notin KnownNames}
ShutdownCommands == {c \in Commands : CmdName(c) = NameShutdown}
RejectedCommands == {c \in Commands : CmdName(c) \in KnownNames /\ CmdCheck(c) # NoErr}
EchoCommands == {c \in Commands : CmdName(c) = NameEcho /\ CmdCheck(c) = NoErr}
ReadCommands == {c \in Commands : CmdName(c) \in ReadNames /\ CmdCheck(c) = NoErr}
WriteCommands == {c \in Commands : CmdName(c) \in WriteNames /\ CmdCheck(c) = NoErr}

\* The record streams a snapshot file is made from: up to MaxRecs records,
\* the last one losing cut bytes at its end, in a gzip frame that loses gzcut
\* bytes at its end.
RecKeys == {<<>>, <<PrefixByte>>, KeyA, KeyKB}
Records == {<<k, v>> : k \in RecKeys, v \in ValSet}
RecordLists == UNION {[1..n -> Records] : n \in 0..MaxRecs}

RECURSIVE RecordStream(_)
RecordStream(recs) ==
    IF recs = <<>> THEN <<>>
    ELSE EncodeRecord(recs[1][1], recs[1][2]) \o RecordStream(Tail(recs))

CutEnd(s, c) == SubSeq(s, 1, Len(s) - c)

Cuts(recs) ==
    IF recs = <<>> THEN {0}
    ELSE 0..(Len(EncodeRecord(recs[Len(recs)][1], recs[Len(recs)][2])) - 1)

Files ==
    UNION {{[recs |-> r, cut |-> c, gzcut |-> g] : c \in Cuts(r), g \in 0..MaxGzCut} :
           r \in RecordLists}

FileBytes(f) == CutEnd(GzipFrame(CutEnd(RecordStream(f.recs), f.cut)), f.gzcut)

NoFile == [recs |-> <<>>, cut |-> 0, gzcut |-> 0]
NotWritten == [done |-> FALSE, out |-> <<>>, err |-> NoErr]

\* ---------------------------------------------------------------- actions
NoSnap == [idx |-> -1, data |-> <<>>]

\* full: a Restore was given the whole snapshot; empty: the storage held no
\* key when Restore was called.
\* kvm.mu with no holder: w is the goroutine between Lock and Unlock (0 when
\* none), r the goroutines between RLock and RUnlock.
Unlocked == [w |-> 0, r |-> {}]
\* A goroutine that is in no call. pc: "wlock" blocked in Lock behind another
\* writer, "drain" in Lock waiting for the readers to leave, "rwait" blocked
\* in RLock, "in" past Lock or RLock, "decode" in the loop of Restore.
\* waited: Lock or RLock did not return at once.
IdleThread ==
    [pc |-> "idle", op |-> "none", cmd |-> <<>>, data |-> <<>>, keys |-> <<>>,
     err |-> NoErr, waited |-> FALSE]

\* A call into a Machine: the reply written and the error returned.
Event(op, n, cmd, reply, err) ==
    [op |-> op, node |-> n, cmd |-> cmd, reply |-> reply, err |-> err,
     applied |-> FALSE, v |-> 0, full |-> FALSE, empty |-> FALSE]

\* A call that ran a mutate function, which returned v.
ApplyEvent(op, n, cmd, reply, r) ==
    [op |-> op, node |-> n, cmd |-> cmd, reply |-> reply, err |-> r.err,
     applied |-> TRUE, v |-> r.v, full |-> FALSE, empty |-> FALSE]

\* A call of Restore. full: it was given the whole snapshot; empty: the
\* storage held no key when it was called.
RestoreEvent(n, err, full, empty) ==
    [op |-> "restore", node |-> n, cmd |-> <<>>, reply |-> NoReply, err |-> err,
     applied |-> FALSE, v |-> 0, full |-> full, empty |-> empty]

Init ==
    /\ log = <<>>
    /\ applied = [n \in Nodes |-> 0]
    /\ db = [n \in Nodes |-> EmptyDb]
    /\ snap = NoSnap
    /\ alive = [n \in Nodes |-> TRUE]
    /\ last = Event("init", 1, <<>>, NoReply, NoErr)
    /\ file = NoFile
    /\ wr = NotWritten
    /\ mu = Unlocked
    /\ thr = [t \in Threads |-> IdleThread]

\* Machine.Command for a command that is not a known name.
DispatchUnknown(n, cmd) ==
    /\ alive[n]
    /\ CmdName(cmd) \notin KnownNames
    /\ last' = Event("dispatch", n, cmd, NoReply, ErrUnknownCommand)
    /\ UNCHANGED <<log, applied, db, snap, alive>>
    /\ UNCHANGED <<file, wr, mu, thr>>

\* The shutdown case acknowledging and closing the connection, with the
\* process left running.
DispatchShutdown_KeepsRunning(n, cmd) ==
    /\ alive[n]
    /\ CmdName(cmd) = NameShutdown
    /\ last' = Event("dispatch", n, cmd, StringReply(OK), NoErr)
    /\ UNCHANGED <<log, applied, db, snap, alive>>
    /\ UNCHANGED <<file, wr, mu, thr>>

\* Machine.Command, case "shutdown": acknowledge, close, os.Exit(0).
DispatchShutdown(n, cmd) ==
    /\ alive[n]
    /\ CmdName(cmd) = NameShutdown
    /\ alive' = [alive EXCEPT ![n] = FALSE]
    /\ last' = Event("dispatch", n, cmd, StringReply(OK), NoErr)
    /\ UNCHANGED <<log, applied, db, snap>>
    /\ UNCHANGED <<file, wr, mu, thr>>

\* A handler that returns an error before it calls m.Apply.
DispatchRejected(n, cmd) ==
    /\ alive[n]
    /\ CmdName(cmd) \in KnownNames
    /\ CmdCheck(cmd) # NoErr
    /\ last' = Event("dispatch", n, cmd, NoReply, CmdCheck(cmd))
    /\ UNCHANGED <<log, applied, db, snap, alive>>
    /\ UNCHANGED <<file, wr, mu, thr>>

\* cmdEcho.
DispatchEcho(n, cmd) ==
    /\ alive[n]
    /\ CmdName(cmd) = NameEcho
    /\ CmdCheck(cmd) = NoErr
    /\ last' = Event("dispatch", n, cmd, cmdEchoRespond(cmd), NoErr)
    /\ UNCHANGED <<log, applied, db, snap, alive>>
    /\ UNCHANGED <<file, wr, mu, thr>>

\* cmdGet and cmdKeys: m.Apply with no mutate function runs respond on the
\* node's own keyspace.
DispatchRead(n, cmd) ==
    /\ alive[n]
    /\ CmdName(cmd) \in ReadNames
    /\ CmdCheck(cmd) = NoErr
    /\ last' = Event("dispatch", n, cmd,
                     IF CmdName(cmd) = NameGet THEN cmdGetRespond(db[n], cmd)
                     ELSE cmdKeysRespond(db[n], cmd),
                     NoErr)
    /\ UNCHANGED <<log, applied, db, snap, alive>>
    /\ UNCHANGED <<file, wr, mu, thr>>

\* cmdSet, cmdDel and cmdFlushdb on the node that accepts writes: m.Apply
\* commits the command, runs mutate on this node once every earlier command
\* has been applied, and runs respond with its result.
DispatchWrite(n, cmd) ==
    /\ alive[n]
    /\ CmdName(cmd) \in WriteNames
    /\ CmdCheck(cmd) = NoErr
    /\ applied[n] = Len(log)
    /\ Len(log) < MaxLog
    /\ LET r == Mutate(db[n], cmd) IN
        /\ log' = Append(log, cmd)
        /\ db' = [db EXCEPT ![n] = r.db]
        /\ applied' = [applied EXCEPT ![n] = @ + 1]
        /\ last' = ApplyEvent("dispatch", n, cmd, Respond(cmd, r), r)
    /\ UNCHANGED <<snap, alive>>
    /\ UNCHANGED <<file, wr, mu, thr>>

\* Machine.Command called by consensus for the next committed command of a
\* node that has not applied it yet: only mutate runs.
ApplyCommitted(n) ==
    /\ alive[n]
    /\ applied[n] < Len(log)
    /\ LET cmd == log[applied[n] + 1]
           r == Mutate(db[n], cmd) IN
        /\ db' = [db EXCEPT ![n] = r.db]
        /\ applied' = [applied EXCEPT ![n] = @ + 1]
        /\ last' = ApplyEvent("apply", n, cmd, NoReply, r)
    /\ UNCHANGED <<log, snap, alive>>
    /\ UNCHANGED <<file, wr, mu, thr>>

\* Machine.Snapshot called by consensus: the snapshot is the node's keyspace
\* at the index it has applied.
Snapshot(n) ==
    /\ alive[n]
    /\ snap' = [idx |-> applied[n], data |-> SnapshotBytes(db[n])]
    /\ last' = Event("snapshot", n, <<>>, NoReply, NoErr)
    /\ UNCHANGED <<log, applied, db, alive>>
    /\ UNCHANGED <<file, wr, mu, thr>>

\* The sources a Restore may be given: the snapshot, or the snapshot with up
\* to MaxCut bytes missing at its end.
Sources(data) == {SubSeq(data, 1, Len(data) - c) : c \in 0..MaxCut}

\* Machine.Restore called by consensus on a node that is behind the snapshot
\* consensus keeps; when it succeeds the node continues from the snapshot's
\* index.
Restore(n, src) ==
    /\ alive[n]
    /\ snap # NoSnap
    /\ applied[n] < snap.idx
    /\ LET r == RestoreResult(db[n], src) IN
        /\ db' = [db EXCEPT ![n] = r.db]
        /\ applied' = [applied EXCEPT ![n] = IF r.err = NoErr THEN snap.idx ELSE @]
        /\ last' = RestoreEvent(n, r.err, src = snap.data, db[n] = EmptyDb)
    /\ UNCHANGED <<log, snap, alive>>
    /\ UNCHANGED <<file, wr, mu, thr>>

\* DispatchWrite when a storage call of the mutate function fails: m.Apply
\* has committed the command; the error goes to the client, or the panic of
\* cmdFlushdb ends the process before anything is written.
DispatchWriteFault(n, cmd, F) ==
    /\ alive[n]
    /\ CmdName(cmd) \in WriteNames
    /\ CmdCheck(cmd) = NoErr
    /\ applied[n] = Len(log)
    /\ Len(log) < MaxLog
    /\ LET r == MutateFault(db[n], cmd, F) IN
        /\ r.err # NoErr
        /\ log' = Append(log, cmd)
        /\ db' = [db EXCEPT ![n] = r.db]
        /\ applied' = [applied EXCEPT ![n] = IF r.panic THEN @ ELSE @ + 1]
        /\ alive' = [alive EXCEPT ![n] = ~r.panic]
        /\ last' = ApplyEvent("dispatch", n, cmd,
                              IF r.panic THEN NoReply ELSE Respond(cmd, r), r)
    /\ UNCHANGED snap
    /\ UNCHANGED <<file, wr, mu, thr>>

\* ApplyCommitted when a storage call of the mutate function fails: the
\* error is handed back to consensus, which goes on with the next command;
\* the panic of cmdFlushdb ends the process.
ApplyCommittedFault(n, F) ==
    /\ alive[n]
    /\ applied[n] < Len(log)
    /\ LET cmd == log[applied[n] + 1]
           r == MutateFault(db[n], cmd, F) IN
        /\ r.err # NoErr
        /\ db' = [db EXCEPT ![n] = r.db]
        /\ applied' = [applied EXCEPT ![n] = IF r.panic THEN @ ELSE @ + 1]
        /\ alive' = [alive EXCEPT ![n] = ~r.panic]
        /\ last' = ApplyEvent("apply", n, cmd, NoReply, r)
    /\ UNCHANGED <<log, snap>>
    /\ UNCHANGED <<file, wr, mu, thr>>

\* Restore of the whole snapshot when a Put of the replay fails.
RestoreFault(n, F) ==
    /\ alive[n]
    /\ snap # NoSnap
    /\ applied[n] < snap.idx
    /\ LET r == RestoreResultFault(db[n], snap.data, F) IN
        /\ r.failed
        /\ db' = [db EXCEPT ![n] = r.db]
        /\ applied' = [applied EXCEPT ![n] = IF r.err = NoErr THEN snap.idx ELSE @]
        /\ last' = RestoreEvent(n, r.err, TRUE, db[n] = EmptyDb)
    /\ UNCHANGED <<log, snap, alive>>
    /\ UNCHANGED <<file, wr, mu, thr>>

\* WriteRedisCommandsFromSnapshot called on the snapshot file.
ReadOffline ==
    /\ ~wr.done
    /\ LET w == WriteRedisCommandsFromSnapshot(FileBytes(file)) IN
        wr' = [done |-> TRUE, out |-> w.out, err |-> w.err]
    /\ UNCHANGED <<log, applied, db, snap, alive, last, file, mu, thr>>

\* Machine.Restore called with the snapshot file on a node holding nothing.
RestoreFile(n) ==
    /\ alive[n]
    /\ applied[n] = 0
    /\ last.op # "restore"
    /\ LET r == RestoreResult(db[n], FileBytes(file)) IN
        /\ db' = [db EXCEPT ![n] = r.db]
        /\ last' = RestoreEvent(n, r.err, TRUE, db[n] = EmptyDb)
    /\ UNCHANGED <<log, applied, snap, alive, file, wr, mu, thr>>

\* The decoders given one snapshot file out of Files.
InitDecode ==
    /\ log = <<>>
    /\ applied = [n \in Nodes |-> 0]
    /\ db = [n \in Nodes |-> EmptyDb]
    /\ snap = NoSnap
    /\ alive = [n \in Nodes |-> TRUE]
    /\ last = Event("init", 1, <<>>, NoReply, NoErr)
    /\ file \in Files
    /\ wr = NotWritten
    /\ mu = Unlocked
    /\ thr = [t \in Threads |-> IdleThread]

NextDecode ==
    \/ ReadOffline
    \/ RestoreFile(1)

SpecDecode == InitDecode /\ [][NextDecode]_vars

\* ------------------------------------------------------ kvm.mu, node 1
\* Restore taking the shared section.
LockKind_RestoreShared(op) == IF op = "apply" THEN "w" ELSE "r"

\* The mutate functions taking the shared section.
LockKind_ApplyShared(op) == IF op = "restore" THEN "w" ELSE "r"

\* The section a method takes: Lock in the mutate functions and in Restore,
\* RLock in the respond functions of cmdGet and cmdKeys and in Snapshot.
LockKind(op) == IF op \in {"apply", "restore"} THEN "w" ELSE "r"

\* The calls goroutines make into the Machine.
LockCommands == {<<NameSet, KeyA, Val1>>, <<NameDel, KeyA>>, <<NameFlushdb>>}
LockReads == {<<NameGet, KeyA>>, <<NameKeys, ArgStar>>}
LockCalls ==
    {[op |-> "apply", cmd |-> c] : c \in LockCommands}
    \cup {[op |-> "read", cmd |-> c] : c \in LockReads}
    \cup {[op |-> "snapshot", cmd |-> <<>>], [op |-> "restore", cmd |-> <<>>]}
\* The sources Restore is given: the snapshot, whole or cut.
LockSources(data) == {data, CutEnd(data, MaxCut)}
\* The storage calls of a mutate function that fail: none, or the first.
LockFaults == {{}, {1}}

Inside(t) == thr[t].pc \in {"in", "decode"}

\* A goroutine calls a method, which calls kvm.mu.Lock() or kvm.mu.RLock().
\* Lock takes the writers' mutex, or blocks behind the writer that has it;
\* with it, it returns once no reader is left. RLock returns at once unless
\* a writer has called Lock.
Call(t, c) ==
    /\ alive[1]
    /\ thr[t].pc = "idle"
    /\ c.op = "apply" =>
         Len(log) + Cardinality({u \in Threads : thr[u].op = "apply"}) < MaxLockLog
    /\ c.op = "restore" => snap # NoSnap
    /\ LET to(pc, waited) ==
               [thr EXCEPT ![t] = [IdleThread EXCEPT !.pc = pc, !.op = c.op,
                                                      !.cmd = c.cmd, !.waited = waited]]
       IN  IF LockKind(c.op) = "w"
           THEN IF mu.w # 0 THEN mu' = mu /\ thr' = to("wlock", TRUE)
                ELSE /\ mu' = [mu EXCEPT !.w = t]
                     /\ thr' = IF mu.r = {} THEN to("in", FALSE) ELSE to("drain", TRUE)
           ELSE IF mu.w # 0 THEN mu' = mu /\ thr' = to("rwait", TRUE)
                ELSE /\ mu' = [mu EXCEPT !.r = @ \cup {t}]
                     /\ thr' = to("in", FALSE)
    /\ UNCHANGED <<log, applied, db, snap, alive, last, file, wr>>

\* Lock of a blocked writer gets the writers' mutex.
WriterNext(t) ==
    /\ alive[1]
    /\ thr[t].pc = "wlock"
    /\ mu.w = 0
    /\ mu' = [mu EXCEPT !.w = t]
    /\ thr' = [thr EXCEPT ![t].pc = IF mu.r = {} THEN "in" ELSE "drain"]
    /\ UNCHANGED <<log, applied, db, snap, alive, last, file, wr>>

\* Lock returns: the last reader has left.
Drained(t) ==
    /\ alive[1]
    /\ thr[t].pc = "drain"
    /\ mu.r = {}
    /\ thr' = [thr EXCEPT ![t].pc = "in"]
    /\ UNCHANGED <<log, applied, db, snap, alive, last, file, wr, mu>>

\* defer kvm.mu.Unlock(): the unlock runs when the function returns and when
\* it panics.
UnlockRuns_NotOnPanic(panic) == ~panic
UnlockRuns(panic) == TRUE

\* kvm.mu after goroutine t has called Unlock or RUnlock: Unlock lets in the
\* readers blocked in RLock before the next writer.
MuAfterUnlock(t) ==
    IF LockKind(thr[t].op) = "w"
    THEN [w |-> 0, r |-> {u \in Threads : thr[u].pc = "rwait"}]
    ELSE [mu EXCEPT !.r = @ \ {t}]

\* The goroutines after t has unlocked and returned.
ThrAfterUnlock(t) ==
    [u \in Threads |->
        IF u = t THEN IdleThread
        ELSE IF LockKind(thr[t].op) = "w" /\ thr[u].pc = "rwait"
        THEN [thr[u] EXCEPT !.pc = "in"]
        ELSE thr[u]]

\* The mutate function of cmdSet, cmdDel or cmdFlushdb between Lock and the
\* deferred Unlock, F the storage calls that fail. A panic of cmdFlushdb
\* ends the process (dies) unless the caller recovers it.
LockedMutate(t, F, dies) ==
    /\ alive[1]
    /\ thr[t].pc = "in"
    /\ thr[t].op = "apply"
    /\ LET r == MutateFault(db[1], thr[t].cmd, F) IN
        /\ dies => r.panic
        /\ F # {} => r.err # NoErr
        /\ db' = [db EXCEPT ![1] = r.db]
        /\ log' = Append(log, thr[t].cmd)
        /\ applied' = [applied EXCEPT ![1] = @ + 1]
        /\ alive' = [alive EXCEPT ![1] = ~dies]
        /\ IF UnlockRuns(r.panic)
           THEN mu' = MuAfterUnlock(t) /\ thr' = ThrAfterUnlock(t)
           ELSE mu' = mu /\ thr' = [thr EXCEPT ![t] = IdleThread]
    /\ UNCHANGED <<snap, last, file, wr>>

\* The respond function of cmdGet or cmdKeys between RLock and the deferred
\* RUnlock.
LockedRespond(t) ==
    /\ alive[1]
    /\ thr[t].pc = "in"
    /\ thr[t].op = "read"
    /\ mu' = MuAfterUnlock(t)
    /\ thr' = ThrAfterUnlock(t)
    /\ UNCHANGED <<log, applied, db, snap, alive, last, file, wr>>

\* The keys kvm.db.Fold has still to visit after the keys visited.
FoldRest(d, visited) ==
    {k \in DOMAIN d : visited = <<>> \/ BytesLess(visited[Len(visited)], k)}

\* Snapshot, one call of the Fold callback: Get the key, write its record.
SnapshotFold(t) ==
    /\ alive[1]
    /\ thr[t].pc = "in"
    /\ thr[t].op = "snapshot"
    /\ FoldRest(db[1], thr[t].keys) # {}
    /\ LET k == SortKeys(FoldRest(db[1], thr[t].keys))[1] IN
        thr' = [thr EXCEPT ![t].keys = Append(@, k),
                           ![t].data = @ \o EncodeRecord(k, dbGet(db[1], k).value)]
    /\ UNCHANGED <<log, applied, db, snap, alive, last, file, wr, mu>>

\* Snapshot after the Fold: gzw.Close() and the deferred RUnlock.
SnapshotClose(t) ==
    /\ alive[1]
    /\ thr[t].pc = "in"
    /\ thr[t].op = "snapshot"
    /\ FoldRest(db[1], thr[t].keys) = {}
    /\ snap' = [idx |-> applied[1], data |-> GzipFrame(thr[t].data)]
    /\ mu' = MuAfterUnlock(t)
    /\ thr' = ThrAfterUnlock(t)
    /\ UNCHANGED <<log, applied, db, alive, last, file, wr>>

\* Restore from Lock to gzip.NewReader: the storage is closed, removed and
\* opened again; a source that is no gzip stream returns the error.
RestoreOpen(t, src) ==
    /\ alive[1]
    /\ thr[t].pc = "in"
    /\ thr[t].op = "restore"
    /\ db' = [db EXCEPT ![1] = RemoveAll(@, DbPath)]
    /\ IF ~GzipHeaderOk(src)
       THEN mu' = MuAfterUnlock(t) /\ thr' = ThrAfterUnlock(t)
       ELSE /\ mu' = mu
            /\ thr' = [thr EXCEPT ![t].pc = "decode",
                                   ![t].data = GzipRead(src).data,
                                   ![t].err = GzipRead(src).err]
    /\ UNCHANGED <<log, applied, snap, alive, last, file, wr>>

\* Restore, one pass of the decode loop: a record is put, or the loop ends
\* and the deferred Unlock runs.
RestoreDecode(t) ==
    /\ alive[1]
    /\ thr[t].pc = "decode"
    /\ LET d == DecodeRecord(thr[t].data, thr[t].err) IN
        IF d.err = NoErr
        THEN /\ db' = [db EXCEPT ![1] = dbPut(@, d.key, d.value)]
             /\ mu' = mu
             /\ thr' = [thr EXCEPT ![t].data = d.rest]
        ELSE /\ db' = db
             /\ mu' = MuAfterUnlock(t)
             /\ thr' = ThrAfterUnlock(t)
    /\ UNCHANGED <<log, applied, snap, alive, last, file, wr>>

\* The goroutines of node 1 calling every method that takes kvm.mu.
NextLock ==
    \/ \E t \in Threads, c \in LockCalls : Call(t, c)
    \/ \E t \in Threads : WriterNext(t)
    \/ \E t \in Threads : Drained(t)
    \/ \E t \in Threads, F \in LockFaults, dies \in BOOLEAN : LockedMutate(t, F, dies)
    \/ \E t \in Threads : LockedRespond(t)
    \/ \E t \in Threads : SnapshotFold(t)
    \/ \E t \in Threads : SnapshotClose(t)
    \/ \E t \in Threads, src \in LockSources(snap.data) : RestoreOpen(t, src)
    \/ \E t \in Threads : RestoreDecode(t)

SpecLock == Init /\ [][NextLock]_vars

\* Snapshots taken while commands are applied: the goroutines apply SET and
\* DEL on a storage that does not fail and call Snapshot.
SnapshotCalls ==
    {[op |-> "apply", cmd |-> c] :
        c \in {<<NameSet, KeyA, Val1>>, <<NameSet, KeyKB, Val1>>, <<NameDel, KeyA>>}}
    \cup {[op |-> "snapshot", cmd |-> <<>>]}

NextLockSnapshot ==
    \/ \E t \in Threads, c \in SnapshotCalls : Call(t, c)
    \/ \E t \in Threads : WriterNext(t)
    \/ \E t \in Threads : Drained(t)
    \/ \E t \in Threads : LockedMutate(t, {}, FALSE)
    \/ \E t \in Threads : SnapshotFold(t)
    \/ \E t \in Threads : SnapshotClose(t)

SpecLockSnapshot == Init /\ [][NextLockSnapshot]_vars

Next ==
    \/ \E n \in Nodes, cmd \in UnknownCommands : DispatchUnknown(n, cmd)
    \/ \E n \in Nodes, cmd \in ShutdownCommands : DispatchShutdown(n, cmd)
    \/ \E n \in Nodes, cmd \in RejectedCommands : DispatchRejected(n, cmd)
    \/ \E n \in Nodes, cmd \in EchoCommands : DispatchEcho(n, cmd)
    \/ \E n \in Nodes, cmd \in ReadCommands : DispatchRead(n, cmd)
    \/ \E n \in Nodes, cmd \in WriteCommands : DispatchWrite(n, cmd)
    \/ \E n \in Nodes : ApplyCommitted(n)
    \/ \E n \in Nodes : Snapshot(n)
    \/ \E n \in Nodes, src \in Sources(snap.data) : Restore(n, src)

Spec == Init /\ [][Next]_vars

\* Machines whose keyspace is built by applied commands only: clients write
\* and read, consensus applies, and no snapshot is taken or installed.
NextApply ==
    \/ \E n \in Nodes, cmd \in ReadCommands : DispatchRead(n, cmd)
    \/ \E n \in Nodes, cmd \in WriteCommands : DispatchWrite(n, cmd)
    \/ \E n \in Nodes : ApplyCommitted(n)

SpecApply == Init /\ [][NextApply]_vars

\* Log compaction and snapshot installation: clients write, consensus
\* applies, takes snapshots and restores them on nodes that are behind.
NextSnapshot ==
    \/ \E n \in Nodes, cmd \in WriteCommands : DispatchWrite(n, cmd)
    \/ \E n \in Nodes : ApplyCommitted(n)
    \/ \E n \in Nodes : Snapshot(n)
    \/ \E n \in Nodes, src \in Sources(snap.data) : Restore(n, src)

SpecSnapshot == Init /\ [][NextSnapshot]_vars

\* Machines on a storage whose calls may fail while commands are applied:
\* clients write and read, consensus applies.
NextApplyFault ==
    \/ \E n \in Nodes, cmd \in ReadCommands : DispatchRead(n, cmd)
    \/ \E n \in Nodes, cmd \in WriteCommands : DispatchWrite(n, cmd)
    \/ \E n \in Nodes : ApplyCommitted(n)
    \/ \E n \in Nodes, cmd \in WriteCommands, F \in FaultSets : DispatchWriteFault(n, cmd, F)
    \/ \E n \in Nodes, F \in FaultSets : ApplyCommittedFault(n, F)

SpecApplyFault == Init /\ [][NextApplyFault]_vars

\* Snapshot installation on a storage whose Put may fail during the replay.
NextRestoreFault ==
    \/ \E n \in Nodes, cmd \in WriteCommands : DispatchWrite(n, cmd)
    \/ \E n \in Nodes : ApplyCommitted(n)
    \/ \E n \in Nodes : Snapshot(n)
    \/ \E n \in Nodes : Restore(n, snap.data)
    \/ \E n \in Nodes, F \in FaultSets : RestoreFault(n, F)

SpecRestoreFault == Init /\ [][NextRestoreFault]_vars

\* The goroutines under a fair scheduler: a goroutine that can take a step
\* inside a method or return from Lock takes it, and a writer blocked behind
\* other writers gets the writers' mutex when it is free again and again
\* (sync.Mutex hands the mutex to a waiter that has been starved).
FairCalls ==
    {[op |-> "apply", cmd |-> c] : c \in {<<NameSet, KeyA, Val1>>, <<NameFlushdb>>}}
    \cup {[op |-> "read", cmd |-> <<NameGet, KeyA>>]}
    \cup {[op |-> "snapshot", cmd |-> <<>>], [op |-> "restore", cmd |-> <<>>]}

Step(t) ==
    \/ Drained(t)
    \/ \E F \in LockFaults, dies \in BOOLEAN : LockedMutate(t, F, dies)
    \/ LockedRespond(t)
    \/ SnapshotFold(t)
    \/ SnapshotClose(t)
    \/ \E src \in LockSources(snap.data) : RestoreOpen(t, src)
    \/ RestoreDecode(t)

NextLockFair ==
    \/ \E t \in Threads, c \in FairCalls : Call(t, c)
    \/ \E t \in Threads : WriterNext(t)
    \/ \E t \in Threads : Step(t)

\* Node 1 has applied SET a 1 as often as leaves one more command to apply.
InitFair ==
    /\ log = [i \in 1..(MaxLockLog - 1) |-> <<NameSet, KeyA, Val1>>]
    /\ applied = [n \in Nodes |-> IF n = 1 THEN MaxLockLog - 1 ELSE 0]
    /\ db = [n \in Nodes |-> IF n = 1 THEN [k \in {KeyA} |-> Val1] ELSE EmptyDb]
    /\ snap = NoSnap
    /\ alive = [n \in Nodes |-> TRUE]
    /\ last = Event("init", 1, <<>>, NoReply, NoErr)
    /\ file = NoFile
    /\ wr = NotWritten
    /\ mu = Unlocked
    /\ thr = [t \in Threads |-> IdleThread]

SpecLockFair ==
    /\ InitFair
    /\ [][NextLockFair]_vars
    /\ \A t \in Threads : WF_vars(Step(t)) /\ SF_vars(WriterNext(t))

\* ================================================================ claims
\* Every keyspace over the keys and values of the model.
Keyspaces == UNION {[S -> ValSet] : S \in SUBSET KeySet}

\* The keys a committed command writes or removes.
Touches(cmd, k) ==
    \/ CmdName(cmd) = NameSet /\ cmd[2] = k
    \/ CmdName(cmd) = NameDel /\ \E j \in 2..Len(cmd) : cmd[j] = k

\* The keyspace a sequence of committed commands describes: a key is present
\* when the last command touching it is a SET, with that SET's value.
ExpectedKeyspace(cmds) ==
    LET lastTouch(k) ==
            LET I == {i \in DOMAIN cmds : Touches(cmds[i], k)}
            IN  IF I = {} THEN 0 ELSE CHOOSE i \in I : \A j \in I : j <= i
        present == {k \in KeySet :
                       lastTouch(k) > 0 /\ CmdName(cmds[lastTouch(k)]) = NameSet}
    IN  [k \in present |-> cmds[lastTouch(k)][3]]

\* The commands a node has applied.
AppliedPrefix(n) == SubSeq(log, 1, applied[n])

\* C1: in every reachable state each replica's keyspace is the result of
\* applying, in commit order from the empty keyspace, exactly the committed
\* commands it has applied so far.
C1_KeyspaceIsAppliedPrefix ==
    \A n \in Nodes : db[n] = ExpectedKeyspace(AppliedPrefix(n))

\* A freshly initialised reference machine applying cmds in order.
RECURSIVE ReplayDb(_, _)
ReplayDb(d, cmds) ==
    IF cmds = <<>> THEN d ELSE ReplayDb(Mutate(d, cmds[1]).db, Tail(cmds))

\* C2: machines that start fresh and apply the same committed sequence in the
\* same order hold the keyspace a fresh reference machine holds after that
\* sequence, and every mutate result (count, error) is the one the reference
\* machine computes for that command.
C2_Deterministic ==
    /\ \A n \in Nodes : db[n] = ReplayDb(EmptyDb, AppliedPrefix(n))
    /\ \A m, n \in Nodes : applied[m] = applied[n] => db[m] = db[n]
    /\ last.applied =>
         LET before == ReplayDb(EmptyDb, SubSeq(log, 1, applied[last.node] - 1))
             ref == Mutate(before, last.cmd)
         IN  last.v = ref.v /\ last.err = ref.err

\* Both machines have applied a SET and a DEL of a present key, the second
\* machine last.
C2_Witness ==
    /\ applied[1] = 2 /\ applied[2] = 2
    /\ last.op = "apply" /\ last.applied
    /\ CmdName(log[1]) = NameSet /\ CmdName(log[2]) = NameDel
    /\ last.v = 2

\* C3: Snapshot of a machine holding K, restored whole on a machine whose
\* storage is empty, succeeds and leaves exactly K.
C3_RoundTrip ==
    [][(last'.op = "restore" /\ last'.full /\ last'.empty) =>
         /\ last'.err = NoErr
         /\ \E K \in Keyspaces : snap.data = SnapshotBytes(K)
         /\ \A K \in Keyspaces :
              snap.data = SnapshotBytes(K) => db'[last'.node] = K]_vars

\* A whole snapshot of two entries, one with the empty value, has been
\* restored on an empty machine.
C3_Witness ==
    /\ last.op = "restore" /\ last.full /\ last.empty /\ last.err = NoErr
    /\ DOMAIN db[last.node] = KeySet
    /\ \E k \in KeySet : db[last.node][k] = ValEmpty
    /\ snap.data = SnapshotBytes(db[last.node])

\* C4: after a successful Restore the keyspace is exactly the entries of the
\* source; no key the storage held before and the source lacks survives.
C4_RestoreReplaces ==
    [][(last'.op = "restore" /\ last'.err = NoErr) =>
         \A K \in Keyspaces :
             snap.data = SnapshotBytes(K) => db'[last'.node] = K]_vars

\* C5: a Restore that returns a decode error leaves the storage empty.
C5_FailedRestoreLeavesEmpty ==
    [][(last'.op = "restore" /\ last'.err # NoErr) =>
         db'[last'.node] = EmptyDb]_vars

\* The number of keys of a DEL that are present when they are deleted.
RECURSIVE RemovedCount(_, _)
RemovedCount(present, keys) ==
    IF keys = <<>> THEN 0
    ELSE (IF keys[1] \in present THEN 1 ELSE 0)
         + RemovedCount(present \ {keys[1]}, Tail(keys))

\* C6: the integer an applied DEL returns is the number of its argument keys
\* that were present when deleted; an absent key contributes 0.
C6_DelCountsRemoved ==
    [][(last'.op = "dispatch" /\ last'.applied /\ CmdName(last'.cmd) = NameDel) =>
         last'.reply = IntReply(RemovedCount(DOMAIN db[last'.node],
                                             Tail(last'.cmd)))]_vars

\* The last call was an accepted GET.
IsGet ==
    /\ last.op = "dispatch"
    /\ CmdName(last.cmd) = NameGet
    /\ last.err = NoErr

\* C7: GET replies null exactly when the key is absent (never written, or
\* removed by DEL since), and otherwise the bulk of the latest applied SET's
\* value; the empty value is an empty bulk, which is not the null reply.
C7_GetReply ==
    IsGet =>
        LET k == last.cmd[2]
            E == ExpectedKeyspace(AppliedPrefix(last.node))
        IN  /\ (last.reply = NullReply) <=> (k \notin DOMAIN db[last.node])
            /\ (last.reply = NullReply) <=> (k \notin DOMAIN E)
            /\ k \in DOMAIN E => last.reply = BulkReply(E[k])
            /\ last.reply # NullReply => last.reply.kind = "bulk"

\* A GET of a key whose latest SET stored the empty value, after a DEL of
\* the other key.
C7_Witness ==
    /\ IsGet
    /\ last.reply = BulkReply(ValEmpty)
    /\ \E i \in 1..applied[last.node] : CmdName(log[i]) = NameDel

\* The elements KEYS is to reply for keyspace d.
ExpectedKeys(d, withvalues) ==
    LET ks == SortKeys(DOMAIN d) IN
    IF withvalues
    THEN [i \in 1..(2 * Len(ks)) |->
             IF i % 2 = 1 THEN ks[(i + 1) \div 2] ELSE d[ks[i \div 2]]]
    ELSE ks

\* C8: KEYS with no argument replies the n keys in ascending order, KEYS
\* WITHVALUES the 2n elements key, value, key, value in ascending key order.
C8_KeysReply ==
    (last.op = "dispatch" /\ CmdName(last.cmd) = NameKeys) =>
        LET d == db[last.node] IN
        /\ Len(last.cmd) = 1 =>
             last.reply = ArrayReply(Cardinality(DOMAIN d), ExpectedKeys(d, FALSE))
        /\ (Len(last.cmd) = 2 /\ ToLower(last.cmd[2]) = ArgWithValues) =>
             last.reply = ArrayReply(2 * Cardinality(DOMAIN d), ExpectedKeys(d, TRUE))

\* The argument counts the commands are documented with.
ArityOk(cmd) ==
    LET name == CmdName(cmd)
        a == Len(cmd) - 1
    IN  IF name = NameEcho THEN a = 1
        ELSE IF name = NameSet THEN a = 2
        ELSE IF name = NameGet THEN a = 1
        ELSE IF name = NameDel THEN a >= 1
        ELSE IF name = NameKeys THEN a \in {0, 1}
        ELSE a = 0

\* C9: a recognised command with any other argument count gets the
\* wrong-argument-count error, nothing is committed and no keyspace changes.
C9_ArityEnforced ==
    [][(/\ last'.op = "dispatch"
        /\ CmdName(last'.cmd) \in KnownNames
        /\ ~ArityOk(last'.cmd)) =>
         /\ last'.err = ErrWrongNumberOfArguments
         /\ log' = log
         /\ db' = db]_vars

\* C10: dispatching GET, KEYS, ECHO, FLUSHDB, an unknown command or a
\* rejected command changes no keyspace; FLUSHDB is committed and applied
\* like a write, and applying it changes no keyspace either.
C10_OnlySetDelChange ==
    [][/\ (/\ last'.op = "dispatch"
           /\ \/ CmdName(last'.cmd) \in {NameGet, NameKeys, NameEcho, NameFlushdb}
              \/ CmdName(last'.cmd) \notin KnownNames
              \/ last'.err \in {ErrWrongNumberOfArguments, ErrSyntaxError})
          => db' = db
       /\ (last'.op = "dispatch" /\ last'.applied /\ CmdName(last'.cmd) = NameFlushdb)
          => log' = Append(log, last'.cmd)
       /\ (last'.op = "apply" /\ CmdName(last'.cmd) = NameFlushdb)
          => /\ db' = db
             /\ applied'[last'.node] = applied[last'.node] + 1]_vars

\* A node holding a key has applied a committed FLUSHDB and still holds it.
C10_Witness ==
    /\ last.op = "apply"
    /\ CmdName(last.cmd) = NameFlushdb
    /\ db[last.node] # EmptyDb

\* C11: SHUTDOWN is answered by the dispatcher with the acknowledgment, appends
\* nothing to the log, applies nothing on any replica, changes no keyspace and
\* ends the local process; a node whose process has ended stays ended, makes
\* no further call and keeps its keyspace and applied index, while the other
\* replicas go on.
C11_ShutdownLocalOnly ==
    [][/\ (last'.op = "dispatch" /\ CmdName(last'.cmd) = NameShutdown /\ last' # last)
          => /\ last'.reply = StringReply(OK)
             /\ ~last'.applied
             /\ log' = log
             /\ applied' = applied
             /\ db' = db
             /\ ~alive'[last'.node]
             /\ \A m \in Nodes \ {last'.node} : alive'[m] = alive[m]
       /\ \A n \in Nodes : ~alive[n] =>
             /\ ~alive'[n]
             /\ db'[n] = db[n]
             /\ applied'[n] = applied[n]
             /\ last' # last => last'.node # n]_vars

\* Node 1 has shut down before applying a committed SET; node 2 has applied
\* it and just served a GET of its key.
C11_Witness ==
    /\ ~alive[1] /\ alive[2]
    /\ Len(log) >= 1 /\ CmdName(log[1]) = NameSet
    /\ applied[1] = 0 /\ db[1] = EmptyDb
    /\ applied[2] >= 1
    /\ last.node = 2 /\ last.op = "dispatch" /\ CmdName(last.cmd) = NameGet
    /\ last.reply.kind = "bulk"

\* C12: a storage failure inside the apply of a committed command ends the
\* replica: the node that got the error is no longer running, so it applies
\* no further command and serves no further read.
C12_ApplyFailureIsFatal ==
    [][(last'.applied /\ last'.err = ErrStorage /\ last' # last) =>
         ~alive'[last'.node]]_vars

\* C13: a DEL whose storage delete fails returns the error with no count and
\* leaves the keyspace as it was before the DEL.
C13_FailedDelChangesNothing ==
    [][(/\ last'.applied
        /\ CmdName(last'.cmd) = NameDel
        /\ last'.err = ErrStorage
        /\ last' # last) =>
         /\ last'.v = 0
         /\ last'.op = "dispatch" => last'.reply = ErrorReply(ErrStorage)
         /\ db'[last'.node] = db[last'.node]]_vars

\* C20: when Restore of a snapshot returns no error, every entry of the
\* snapshot is in the keyspace with its value.
C20_RestoreSuccessStoredAll ==
    [][(last'.op = "restore" /\ last'.full /\ last'.err = NoErr /\ last' # last) =>
         \A K \in Keyspaces :
             snap.data = SnapshotBytes(K) =>
                 \A k \in DOMAIN K :
                     /\ k \in DOMAIN db'[last'.node]
                     /\ db'[last'.node][k] = K[k]]_vars

\* The commands SET key value.
SetCommands == {c \in WriteCommands : CmdName(c) = NameSet}

\* A node applies a SET that is the command it applied just before.
AppliesDuplicateSet(n) ==
    /\ applied[n] >= 1
    /\ applied'[n] = applied[n] + 1
    /\ CmdName(log'[applied'[n]]) = NameSet
    /\ log'[applied'[n]] = log'[applied[n]]

\* C19: a node that applies the same committed SET a second time in a row
\* keeps the keyspace the first application left, the key holding the SET's
\* value; and from every keyspace a node holds, applying any SET twice gives
\* the keyspace that applying it once gives.
C19_SetIdempotent ==
    [][/\ \A n \in Nodes : AppliesDuplicateSet(n) =>
             /\ db'[n] = db[n]
             /\ db'[n][log'[applied'[n]][2]] = log'[applied'[n]][3]
       /\ \A n \in Nodes, cmd \in SetCommands :
             LET once == Mutate(db[n], cmd).db
                 twice == Mutate(once, cmd).db
             IN  twice = once /\ twice[cmd[2]] = cmd[3]]_vars

\* A node has applied SET a 1 twice in a row, delivered by consensus.
C19_Witness ==
    /\ Len(log) = 2 /\ log[1] = log[2] /\ log[1] = <<NameSet, KeyA, Val1>>
    /\ last.op = "apply" /\ applied[last.node] = 2
    /\ db[last.node] = [k \in {KeyA} |-> Val1]

\* The bytes of a record in the stream.
RecordSize(rec) == 2 * NumSize + Len(rec[1]) + Len(rec[2])

\* The bytes of the record stream of file f that reach a decoder: the gzip
\* frame ends with two symbols that are no bytes of the stream.
Delivered(f) ==
    LET len == Len(RecordStream(f.recs)) - f.cut
        lost == IF f.gzcut > 2 THEN f.gzcut - 2 ELSE 0
    IN  IF len > lost THEN len - lost ELSE 0

RECURSIVE CompleteCount(_, _)
CompleteCount(recs, len) ==
    IF recs = <<>> \/ RecordSize(recs[1]) > len THEN 0
    ELSE 1 + CompleteCount(Tail(recs), len - RecordSize(recs[1]))

\* The records of f that reach a decoder whole, and whether the delivered
\* stream ends with the last of them.
Complete(f) == SubSeq(f.recs, 1, CompleteCount(f.recs, Delivered(f)))
OnBoundary(f) == Len(RecordStream(Complete(f))) = Delivered(f)

\* C16: a stream that ends inside a record makes the offline reader and
\* Restore return an error; what they emit or insert is what they emit or
\* insert for the stream of the whole records before it, nothing from the
\* incomplete record; no error is returned only for a stream that ends on a
\* record boundary, and a whole file is accepted.
C16_TruncatedStreamIsError ==
    LET whole == GzipFrame(RecordStream(Complete(file))) IN
    /\ wr.done =>
         /\ ~OnBoundary(file) => wr.err # NoErr
         /\ wr.err = NoErr => OnBoundary(file)
         /\ (file.cut = 0 /\ file.gzcut = 0) => wr.err = NoErr
         /\ wr.out = WriteRedisCommandsFromSnapshot(whole).out
    /\ last.op = "restore" =>
         /\ ~OnBoundary(file) => last.err # NoErr
         /\ last.err = NoErr => OnBoundary(file)
         /\ (file.cut = 0 /\ file.gzcut = 0) => last.err = NoErr
         /\ db[last.node] = RestoreResult(EmptyDb, whole).db

\* A closed gzip frame whose second record stops right after the length of
\* its key has been read offline and restored: both return the plain EOF of
\* the read of the key as an error, having emitted and stored the first
\* record.
C16_Witness ==
    /\ wr.done /\ last.op = "restore"
    /\ Len(file.recs) = 2 /\ file.cut > 0 /\ file.gzcut = 0
    /\ wr.err = ErrEOF /\ last.err = ErrEOF
    /\ wr.out # <<>>
    /\ db[last.node] # EmptyDb

\* Reading a decimal number at the head of s.
RECURSIVE ParseInt(_, _)
ParseInt(s, acc) ==
    IF s # <<>> /\ s[1] \in 48..57 THEN ParseInt(Tail(s), 10 * acc + (s[1] - 48))
    ELSE [n |-> acc, rest |-> s]

StartsWith(s, p) == Len(s) >= Len(p) /\ SubSeq(s, 1, Len(p)) = p

\* Reading count bulk strings ($<length>, line end, bytes, line end) at the
\* head of s.
RECURSIVE ParseBulks(_, _)
ParseBulks(s, count) ==
    IF count = 0 THEN [ok |-> TRUE, args |-> <<>>, rest |-> s]
    ELSE IF ~StartsWith(s, <<36>>) THEN [ok |-> FALSE, args |-> <<>>, rest |-> s]
    ELSE LET i == ParseInt(Tail(s), 0) IN
         IF ~StartsWith(i.rest, CRLF) \/ Len(i.rest) < i.n + 4
         THEN [ok |-> FALSE, args |-> <<>>, rest |-> s]
         ELSE LET body == SubSeq(i.rest, 3, 2 + i.n)
                  after == SubSeq(i.rest, 3 + i.n, Len(i.rest))
              IN  IF ~StartsWith(after, CRLF) THEN [ok |-> FALSE, args |-> <<>>, rest |-> s]
                  ELSE LET more == ParseBulks(SubSeq(after, 3, Len(after)), count - 1)
                       IN  [ok |-> more.ok, args |-> <<body>> \o more.args, rest |-> more.rest]

\* The commands a protocol server reads from the text s: each is *<count>,
\* line end, and count bulk strings.
RECURSIVE ParseCommands(_)
ParseCommands(s) ==
    IF s = <<>> THEN [ok |-> TRUE, cmds |-> <<>>]
    ELSE IF ~StartsWith(s, <<42>>) THEN [ok |-> FALSE, cmds |-> <<>>]
    ELSE LET i == ParseInt(Tail(s), 0) IN
         IF ~StartsWith(i.rest, CRLF) THEN [ok |-> FALSE, cmds |-> <<>>]
         ELSE LET b == ParseBulks(SubSeq(i.rest, 3, Len(i.rest)), i.n)
                  more == ParseCommands(b.rest)
              IN  IF ~b.ok THEN [ok |-> FALSE, cmds |-> <<>>]
                  ELSE [ok |-> more.ok, cmds |-> <<b.args>> \o more.cmds]

NameSetUpper == <<83, 69, 84>>

\* One SET per record whose key starts with 'k', the 'k' removed.
RECURSIVE ExpectedSets(_)
ExpectedSets(recs) ==
    IF recs = <<>> THEN <<>>
    ELSE LET k == recs[1][1]
             v == recs[1][2]
         IN  (IF k # <<>> /\ k[1] = 107 THEN <<<<NameSetUpper, Tail(k), v>>>> ELSE <<>>)
             \o ExpectedSets(Tail(recs))

WritersInside == {t \in Threads : Inside(t) /\ thr[t].op \in {"apply", "restore"}}
ReadersInside == {t \in Threads : Inside(t) /\ thr[t].op \in {"read", "snapshot"}}

\* C14: at most one mutate function of SET, DEL, FLUSHDB or Restore is inside
\* its critical section, and then no GET, KEYS or Snapshot is inside; Restore
\* is alone from its Lock to its return, through teardown, reopen and every
\* pass of the decode loop.
C14_LockDiscipline ==
    /\ Cardinality(WritersInside) <= 1
    /\ WritersInside # {} => ReadersInside = {}
    /\ \A t \in Threads :
         (thr[t].op = "restore" /\ Inside(t)) =>
             /\ mu.w = t
             /\ mu.r = {}
             /\ \A u \in Threads \ {t} : ~Inside(u)

\* A Snapshot that has written a record and a GET or KEYS are inside
\* together, and a mutate function that called Lock meanwhile waits for
\* them to leave.
C14_Witness ==
    \E t, u, v \in Threads :
        /\ thr[t].op = "snapshot" /\ thr[t].pc = "in" /\ thr[t].keys # <<>>
        /\ thr[u].op = "read" /\ thr[u].pc = "in"
        /\ thr[v].op = "apply" /\ thr[v].pc = "drain"
        /\ mu.r = {t, u} /\ mu.w = v

\* The records of keyspace K in ascending key order.
ImageOf(K) == EncodeKeys(K, SortKeys(DOMAIN K))

\* C15: the records a Snapshot has written when it returns are the whole
\* keyspace as it stood after some prefix of the applied commands, one
\* record per entry in ascending key order, whatever SET and DEL were
\* called while it ran.
C15_SnapshotPointInTime ==
    [][\A t \in Threads :
          (thr[t].op = "snapshot" /\ thr[t].pc = "in" /\ thr'[t].pc = "idle") =>
              /\ \E j \in 0..Len(log) :
                    LET K == ExpectedKeyspace(SubSeq(log, 1, j)) IN
                    /\ thr[t].data = ImageOf(K)
                    /\ thr[t].keys = SortKeys(DOMAIN K)
              /\ snap'.data = GzipFrame(thr[t].data)]_vars

\* A Snapshot has returned the keyspace a -> 1, kb -> 1 of two applied SETs
\* while the DEL a called during it still waits in Lock.
C15_Witness ==
    /\ Len(log) = 2
    /\ snap.data = SnapshotBytes([k \in KeySet |-> Val1])
    /\ mu.r = {}
    /\ \E t \in Threads :
         thr[t].op = "apply" /\ thr[t].pc = "drain" /\ thr[t].cmd = <<NameDel, KeyA>>

\* Goroutine t holds kvm.mu, in either section.
Holds(t) == mu.w = t \/ t \in mu.r

\* C17: a goroutine that is in no method holds no lock, whichever way the
\* method ended (return, error return, panic of cmdFlushdb), and a goroutine
\* blocked in Lock or RLock holds none; while the process runs, every
\* goroutine that has called Lock or RLock gets the lock, a Snapshot among
\* them, and every method returns.
C17_NoDeadlock ==
    /\ [](\A t \in Threads : thr[t].pc \in {"idle", "wlock", "rwait"} => ~Holds(t))
    /\ \A t \in Threads :
         (thr[t].pc \in {"wlock", "drain", "rwait"}) ~> (Inside(t) \/ ~alive[1])
    /\ \A t \in Threads :
         (thr[t].pc # "idle") ~> (thr[t].pc = "idle" \/ ~alive[1])

\* A Snapshot that was blocked in RLock behind a writer is inside and has
\* written a record, after a FLUSHDB whose panic was recovered.
C17_Witness ==
    /\ alive[1]
    /\ \E i \in DOMAIN log : log[i] = <<NameFlushdb>>
    /\ \E t \in Threads :
         /\ thr[t].op = "snapshot" /\ thr[t].pc = "in"
         /\ thr[t].waited /\ thr[t].keys # <<>>

====
